---------------------------- MODULE Spec2Model ----------------------------
(***************************************************************************)
(* Model of the bulk project creator (main.py, create_projects.py):        *)
(* the identifier validator and generator, create_google_project and the   *)
(* __main__ batch driver.                                                   *)
(*                                                                         *)
(* Python values are represented as follows.                               *)
(*   str    a sequence of one-character strings; an optional str that is   *)
(*          None is NoneStr                                                 *)
(*   dict   a function from its keys (strings) to its values; `k in d` is  *)
(*          k \in DOMAIN d, {} is EmptyDict; a dict-or-None slot that is   *)
(*          None holds None                                                 *)
(*   list   a sequence                                                      *)
(***************************************************************************)
EXTENDS Integers, Sequences, FiniteSets, TLC

VARIABLES
    program,                \* which script runs: "main.py" or "create_projects.py"
    pc,                     \* position of the single thread of control
    start_number,           \* __main__: start_number
    num_projects,           \* __main__: num_projects
    BILLING_ACCOUNT_ID,     \* __main__: BILLING_ACCOUNT_ID / billing_account_id
    credentials,            \* __main__: credentials / the credentials argument
    i,                      \* __main__: loop index of range(num_projects)
    project_number,         \* __main__: project_number
    project_name,           \* __main__: project_name / the project_name argument
    project_id,             \* __main__: project_id / the project_id argument
    new_project,            \* value returned by create_google_project
    created_projects_info,  \* __main__: created_projects_info
    calls,                  \* project numbers create_google_project was called for
    outcomes,               \* values create_google_project returned, in order
    reported,               \* project numbers reported as failed by the driver
    prefix,                 \* generate_random_project_id: prefix
    gen_result,             \* value returned by generate_random_project_id
    service,                \* create_google_project: service (built or not)
    project_body,           \* create_google_project: project_body
    operation,              \* create_google_project: operation
    operation_result,       \* create_google_project: operation_result
    submits,                \* create requests executed in this call: body and outcome
    polled,                 \* operation names polled in this call, in order
    last_poll,              \* what the latest poll of this call returned or raised
    sleeps,                 \* durations of the time.sleep calls of this call
    log,                    \* diagnostics emitted by the running function call
    raised,                 \* exception that left create_google_project
    candidate,              \* is_valid_project_id: its argument
    valid                   \* is_valid_project_id: its result

vars == <<program, pc, start_number, num_projects, BILLING_ACCOUNT_ID,
          credentials, i, project_number, project_name, project_id,
          new_project, created_projects_info, calls, outcomes, reported, prefix,
          gen_result, service, project_body, operation, operation_result,
          submits, polled, last_poll, sleeps, log, raised, candidate,
          valid>>

---------------------------------------------------------------------------
(* Bounds of the model *)

\* longest run of one repeated character in a validator input
MaxRun == 31
\* polls of one create_google_project call that the model follows
MaxPolls == 3
\* candidates of one generate_random_project_id call that the model follows
MaxTries == 4
\* loop iterations of the batch driver that the model follows
MaxBatch == 3

---------------------------------------------------------------------------
(* Python values *)

None == [py_none |-> TRUE]
NoneStr == <<"None">>
EmptyDict == [k \in {} |-> TRUE]
\* outcome of a call: the value it returned or the exception it raised
Returns(v) == [kind |-> "returns", value |-> v]
Raises(e) == [kind |-> "raises", exc |-> e]
NoPoll == [kind |-> "none"]

\* bool(v) of a dict-or-None value
Truthy(v) == v # None /\ DOMAIN v # {}
\* bool(s) of a str-or-None value
TruthyStr(s) == s # NoneStr /\ s # <<>>

Lower == {"a","b","c","d","e","f","g","h","i","j","k","l","m",
          "n","o","p","q","r","s","t","u","v","w","x","y","z"}
Digits == {"0","1","2","3","4","5","6","7","8","9"}
DigitChar == <<"0","1","2","3","4","5","6","7","8","9">>

\* c repeated n times
Rep(c, n) == [k \in 1..n |-> c]

---------------------------------------------------------------------------
(* is_valid_project_id *)

\* {4,28} of the pattern
MinInterior == 4
MaxInterior == 28

\* `$` of Python's re without MULTILINE: at the end of the string, or just
\* before a newline that is the last character of the string.
DollarAt(s, pos) ==
    \/ pos = Len(s) + 1
    \/ pos = Len(s) /\ s[Len(s)] = "\n"

\* the pattern with an interior class that leaves the hyphen out
re_match_no_hyphen(s) ==
    \E n \in MinInterior..MaxInterior :
        /\ Len(s) >= n + 2
        /\ s[1] \in Lower
        /\ \A k \in 2..(n + 1) : s[k] \in Lower \cup Digits
        /\ s[n + 2] \in Lower \cup Digits
        /\ DollarAt(s, n + 3)
\* re.match(r"^[a-z][a-z0-9-]{4,28}[a-z0-9]$", s) finds a match: some
\* repetition count n of the interior class lets the rest of the pattern match.
re_match(s) ==
    \E n \in MinInterior..MaxInterior :
        /\ Len(s) >= n + 2
        /\ s[1] \in Lower
        /\ \A k \in 2..(n + 1) : s[k] \in Lower \cup Digits \cup {"-"}
        /\ s[n + 2] \in Lower \cup Digits
        /\ DollarAt(s, n + 3)

is_valid_project_id(s) == re_match(s)

\* The naming rules of the docstring: 6 to 30 characters, lowercase letters,
\* digits and hyphens, starting with a letter, ending with a letter or digit.
MinLen == 6
MaxLen == 30
Grammar(s) ==
    /\ Len(s) >= MinLen
    /\ Len(s) <= MaxLen
    /\ s[1] \in Lower
    /\ s[Len(s)] \in Lower \cup Digits
    /\ \A k \in 1..Len(s) : s[k] \in Lower \cup Digits \cup {"-"}

\* Validator inputs: a head of at most one character, a run of one repeated
\* character, a tail of at most two characters.
Alphabet == {"a", "0", "-", "A", " ", "\n"}
Heads == {<<>>} \cup {<<c>> : c \in Alphabet}
Tails == Heads \cup {<<c, d>> : c \in Alphabet, d \in Alphabet}
ValidatorInputs ==
    {h \o Rep(c, n) \o t : h \in Heads, c \in {"a", "0", "-", "A"},
                           n \in 0..MaxRun, t \in Tails}

\* The validator applied to an input (the pure function as a one-step program).
Validate ==
    /\ pc = "validate"
    /\ valid' = is_valid_project_id(candidate)
    /\ pc' = "validated"
    /\ UNCHANGED <<program, start_number, num_projects, BILLING_ACCOUNT_ID,
                   credentials, i, project_number, project_name, project_id,
                   new_project, created_projects_info, calls, outcomes, reported,
                   prefix, gen_result, service, project_body, operation,
                   operation_result, submits, polled, last_poll, sleeps,
                   log, raised, candidate>>

---------------------------------------------------------------------------
(* generate_random_project_id *)

\* range(15)
SuffixLen == 15
\* string.ascii_lowercase + string.digits
SuffixAlphabet == Lower \cup Digits
\* The characters the model lets secrets.choice draw.
SampleChars == {"a", "9"}
\* "".join(secrets.choice(...) for _ in range(15)): the suffixes the model
\* draws, one character of the alphabet repeated.
RandomSuffixes == {Rep(c, SuffixLen) : c \in SampleChars \cap SuffixAlphabet}

\* f"{prefix}{random_suffix}"
Concat(p, suffix) == p \o suffix

\* the test of the if statement that decides whether a candidate is returned
GenAcceptsAny(c) == TRUE
GenAccepts(c) == is_valid_project_id(c)

Warning(c) == [level |-> "warning", event |-> "invalid_id", id |-> c]
Rejected == SelectSeq(log, LAMBDA e : e.event = "invalid_id")

\* One iteration of the while True loop: draw a suffix, build the candidate,
\* return it when it is accepted, else emit the warning and loop.
GenTry ==
    /\ pc = "gen"
    /\ Len(Rejected) < MaxTries
    /\ \E suffix \in RandomSuffixes :
          LET c == Concat(prefix, suffix) IN
          /\ candidate' = c
          /\ valid' = is_valid_project_id(c)
          /\ IF GenAccepts(c)
                THEN /\ gen_result' = c
                     /\ pc' = "gen_returned"
                     /\ log' = log
                ELSE /\ log' = Append(log, Warning(c))
                     /\ pc' = "gen"
                     /\ UNCHANGED gen_result
    /\ UNCHANGED <<program, start_number, num_projects, BILLING_ACCOUNT_ID,
                   credentials, i, project_number, project_name, project_id,
                   new_project, created_projects_info, calls, outcomes, reported,
                   prefix, service, project_body, operation,
                   operation_result, submits, polled, last_poll, sleeps,
                   raised>>

\* Prefixes generate_random_project_id is called with in SpecGen.
GenPrefixes ==
    { <<"p","r","o","j","e","c","t","0","1","-">>,
      <<"p","r","o","j","e","c","t","u","w","u","-">>,
      <<>>,
      <<"p","-">>,
      <<"9","-">>,
      <<"p","r","o","j","e","c","t","_">>,
      <<"P","r","o","j","e","c","t","-">>,
      Rep("a", MaxLen - SuffixLen),
      Rep("a", MaxLen - SuffixLen + 1) }

---------------------------------------------------------------------------
(* Specifications of the two pure components *)

\* Values of the variables a specification does not use.
Idle ==
    /\ start_number = 0
    /\ num_projects = 0
    /\ BILLING_ACCOUNT_ID = NoneStr
    /\ credentials = "None"
    /\ i = 0
    /\ project_number = 0
    /\ project_name = NoneStr
    /\ project_id = NoneStr
    /\ new_project = None
    /\ created_projects_info = <<>>
    /\ calls = <<>>
    /\ outcomes = <<>>
    /\ reported = <<>>
    /\ service = "None"
    /\ project_body = EmptyDict
    /\ operation = None
    /\ operation_result = None
    /\ submits = <<>>
    /\ polled = <<>>
    /\ last_poll = NoPoll
    /\ sleeps = <<>>
    /\ log = <<>>
    /\ raised = "None"

InitValid ==
    /\ Idle
    /\ program = "main.py"
    /\ pc = "validate"
    /\ candidate \in ValidatorInputs
    /\ valid = FALSE
    /\ prefix = NoneStr
    /\ gen_result = NoneStr

SpecValid == InitValid /\ [][Validate]_vars

InitGen ==
    /\ Idle
    /\ program = "main.py"
    /\ pc = "gen"
    /\ prefix \in GenPrefixes
    /\ gen_result = NoneStr
    /\ candidate = NoneStr
    /\ valid = FALSE

SpecGen == InitGen /\ [][GenTry]_vars

---------------------------------------------------------------------------
(* The remote client (googleapiclient), as create_google_project sees it *)

\* Exception classes and their base classes
Bases(exc) ==
    CASE exc = "HttpError" -> {"HttpError", "Exception", "BaseException"}
      [] exc = "KeyError" -> {"KeyError", "LookupError", "Exception", "BaseException"}
      [] exc = "TypeError" -> {"TypeError", "Exception", "BaseException"}
      [] exc = "TimeoutError" -> {"TimeoutError", "OSError", "Exception", "BaseException"}
      [] OTHER -> {exc, "BaseException"}

\* what a remote call may raise
RemoteErrors == {"HttpError", "TimeoutError"}

\* build(...) returns a client or raises
BuildOutcomes == {Returns("service")} \cup {Raises(e) : e \in RemoteErrors}

\* the operation handle the remote API gives for a create request
Handle(body) == <<"operations/">> \o body.project_id

\* request.execute() of projects().create: an operation, an operation without
\* a name, or an exception
SubmitOutcomes(body) ==
    {Returns([name |-> Handle(body)]), Returns(EmptyDict)}
        \cup {Raises(e) : e \in RemoteErrors}

TermsOfService == <<"T","e","r","m","s"," ","o","f"," ","S","e","r","v","i","c","e">>
MsgExists == <<"e","x","i","s","t","s">>
MsgTerms == <<"a","c","c","e","p","t"," ">> \o TermsOfService \o <<".">>
MsgTermsLower == <<"t","e","r","m","s"," ","o","f"," ","s","e","r","v","i","c","e">>

\* error payloads of a status
Errors ==
    { [code |-> 409, message |-> MsgExists],
      [code |-> 403, message |-> MsgTerms],
      [code |-> 403, message |-> MsgTermsLower, details |-> <<"d1", "d2">>],
      [message |-> MsgExists],
      [code |-> 409] }

\* resource payloads of a status: the created project, or an empty payload
Responses(body) ==
    { [name |-> body.name, projectId |-> body.project_id, projectNumber |-> 1],
      EmptyDict }

\* operations().get(...).execute(): a status dict (every combination of a
\* 'done' flag, an 'error' entry and a 'response' entry, present or absent),
\* a value that is no dict, or an exception
Statuses(body) ==
    {[name |-> Handle(body)]}
      \cup {[name |-> Handle(body), done |-> d] : d \in BOOLEAN}
      \cup {[name |-> Handle(body), error |-> e] : e \in {[code |-> 409, message |-> MsgExists]}}
      \cup {[name |-> Handle(body), response |-> r] : r \in Responses(body)}
      \cup {[name |-> Handle(body), done |-> d, error |-> e] :
                d \in BOOLEAN, e \in Errors}
      \cup {[name |-> Handle(body), done |-> d, response |-> r] :
                d \in BOOLEAN, r \in Responses(body)}
      \cup {[name |-> Handle(body), done |-> TRUE, error |-> e, response |-> r] :
                e \in {[code |-> 409, message |-> MsgExists]}, r \in Responses(body)}

PollOutcomes(body) ==
    {Returns(st) : st \in Statuses(body)}
        \cup {Returns(None)}
        \cup {Raises(e) : e \in RemoteErrors}

---------------------------------------------------------------------------
(* create_google_project *)

\* the sleep of the polling loop
PollInterval == 5

Event(level, event) == [level |-> level, event |-> event]

\* sub in s, for strings
Contains(s, sub) ==
    \E k \in 0..(Len(s) - Len(sub)) :
        \A j \in 1..Len(sub) : s[k + j] = sub[j]

\* the except clauses of the function: which one handles exc
CatchOnlyHttpError(exc) ==
    IF "HttpError" \in Bases(exc)
        THEN [caught |-> TRUE, event |-> Event("error", "http_error")]
        ELSE [caught |-> FALSE, event |-> Event("error", "none")]
CatchAllAsUnexpected(exc) ==
    IF "Exception" \in Bases(exc)
        THEN [caught |-> TRUE, event |-> Event("error", "unexpected_error")]
        ELSE [caught |-> FALSE, event |-> Event("error", "none")]
Catch(exc) ==
    IF "HttpError" \in Bases(exc)
        THEN [caught |-> TRUE, event |-> Event("error", "http_error")]
    ELSE IF "Exception" \in Bases(exc)
        THEN [caught |-> TRUE, event |-> Event("error", "unexpected_error")]
    ELSE [caught |-> FALSE, event |-> Event("error", "none")]

\* if "done" in operation_result
IsCompleteOrError(st) == "done" \in DOMAIN st \/ "error" \in DOMAIN st
IsComplete(st) == "done" \in DOMAIN st

\* if "error" in operation_result
HasErrors(st) == "errors" \in DOMAIN st
HasError(st) == "error" \in DOMAIN st

\* a request body that falls back to the identifier only when no name is given
\* at all, keeping an empty name
BodyNameUnlessNone(pid, pname, billing) ==
    LET base == [project_id |-> pid,
                 name |-> IF pname # NoneStr THEN pname ELSE pid]
    IN  IF TruthyStr(billing)
            THEN [project_id |-> base.project_id, name |-> base.name,
                  parent |-> [type |-> "billingAccounts", id |-> billing]]
            ELSE base
\* the project_body dict
Body(pid, pname, billing) ==
    LET base == [project_id |-> pid,
                 name |-> IF TruthyStr(pname) THEN pname ELSE pid]
    IN  IF TruthyStr(billing)
            THEN [project_id |-> base.project_id, name |-> base.name,
                  parent |-> [type |-> "billingAccounts", id |-> billing]]
            ELSE base

Step(events, next, exc, value) ==
    [events |-> events, next |-> next, exc |-> exc, value |-> value]

\* the error branch with the hint test made case-insensitive
ErrorBranchAnyCase(error) ==
    LET e1 == <<Event("error", "create_error")>>
        e2 == Append(e1, [level |-> "error", event |-> "code", code |-> error.code])
        e3 == Append(e2, [level |-> "error", event |-> "message",
                          message |-> error.message])
        e4 == IF "details" \in DOMAIN error
                THEN e3 \o <<Event("error", "details")>>
                        \o [k \in 1..Len(error.details) |->
                               [level |-> "error", event |-> "detail",
                                detail |-> error.details[k]]]
                ELSE e3
        e5 == IF \/ Contains(error.message, TermsOfService)
                 \/ Contains(error.message, MsgTermsLower)
                THEN Append(e4, Event("warning", "solution"))
                ELSE e4
    IN  IF "code" \notin DOMAIN error THEN Step(e1, "raise", "KeyError", None)
        ELSE IF "message" \notin DOMAIN error THEN Step(e2, "raise", "KeyError", None)
        ELSE Step(e5, "return", "None", None)
\* the error branch of the loop body
ErrorBranch(error) ==
    LET e1 == <<Event("error", "create_error")>>
        e2 == Append(e1, [level |-> "error", event |-> "code", code |-> error.code])
        e3 == Append(e2, [level |-> "error", event |-> "message",
                          message |-> error.message])
        e4 == IF "details" \in DOMAIN error
                THEN e3 \o <<Event("error", "details")>>
                        \o [k \in 1..Len(error.details) |->
                               [level |-> "error", event |-> "detail",
                                detail |-> error.details[k]]]
                ELSE e3
        e5 == IF Contains(error.message, TermsOfService)
                THEN Append(e4, Event("warning", "solution"))
                ELSE e4
    IN  IF "code" \notin DOMAIN error THEN Step(e1, "raise", "KeyError", None)
        ELSE IF "message" \notin DOMAIN error THEN Step(e2, "raise", "KeyError", None)
        ELSE Step(e5, "return", "None", None)

\* a loop body that reads the payload with a default instead of subscripting
ProcessStatusGetResponse(st) ==
    IF st = None THEN Step(<<>>, "raise", "TypeError", None)
    ELSE IF IsComplete(st) THEN
        IF HasError(st) THEN ErrorBranch(st.error)
        ELSE IF "response" \notin DOMAIN st
            THEN Step(<<Event("info", "created")>>, "return", "None", None)
            ELSE Step(<<Event("info", "created")>>, "return", "None", st.response)
    ELSE Step(<<Event("info", "waiting")>>, "sleep", "None", None)
\* the body of the polling loop after the status has been fetched
ProcessStatus(st) ==
    IF st = None THEN Step(<<>>, "raise", "TypeError", None)
    ELSE IF IsComplete(st) THEN
        IF HasError(st) THEN ErrorBranch(st.error)
        ELSE IF "response" \notin DOMAIN st
            THEN Step(<<Event("info", "created")>>, "raise", "KeyError", None)
            ELSE Step(<<Event("info", "created")>>, "return", "None", st.response)
    ELSE Step(<<Event("info", "waiting")>>, "sleep", "None", None)

\* an ending that re-submits once after a failed poll instead of returning
ExitRetryOnFailure(value, exc, events) ==
    /\ log' = log \o events
    /\ raised' = exc
    /\ new_project' = value
    /\ outcomes' = IF exc = "None" THEN Append(outcomes, value) ELSE outcomes
    /\ pc' = IF value = None /\ polled # <<>> /\ outcomes = <<>>
                THEN "submit" ELSE "returned"
    /\ service' = "None"
    /\ project_body' = EmptyDict
    /\ operation' = None
    /\ operation_result' = None
\* The function ends: its locals are gone, the caller gets value (or the
\* exception raised, when raised is not "None").
Exit(value, exc, events) ==
    /\ log' = log \o events
    /\ raised' = exc
    /\ new_project' = value
    /\ outcomes' = IF exc = "None" THEN Append(outcomes, value) ELSE outcomes
    /\ pc' = "returned"
    /\ service' = "None"
    /\ project_body' = EmptyDict
    /\ operation' = None
    /\ operation_result' = None

\* an exception raised inside the try block meets the except clauses
Leave(exc, events) ==
    IF Catch(exc).caught
        THEN Exit(None, "None", events \o <<Catch(exc).event>>)
        ELSE Exit(None, exc, events)

\* a return statement
Return(value, events) == Exit(value, "None", events)

\* an entry that builds the client without looking at the credentials
EnterWithoutCheck ==
    /\ pc = "create"
    /\ \E b \in BuildOutcomes :
          IF b.kind = "raises"
            THEN Leave(b.exc, <<>>)
            ELSE /\ service' = b.value
                 /\ pc' = "submit"
                 /\ UNCHANGED <<log, raised, new_project, outcomes,
                                project_body, operation,
                                operation_result>>
    /\ UNCHANGED <<program, start_number, num_projects, BILLING_ACCOUNT_ID,
                   credentials, i, project_number, project_name, project_id,
                   created_projects_info, calls, reported, prefix, gen_result,
                   submits, polled, last_poll, sleeps, candidate, valid>>
\* The credentials check and build(...)
Enter ==
    /\ pc = "create"
    /\ IF credentials = "None"
          THEN Return(None, <<Event("error", "no_credentials")>>)
          ELSE \E b \in BuildOutcomes :
                  IF b.kind = "raises"
                    THEN Leave(b.exc, <<>>)
                    ELSE /\ service' = b.value
                         /\ pc' = "submit"
                         /\ UNCHANGED <<log, raised, new_project, outcomes,
                                        project_body, operation,
                                        operation_result>>
    /\ UNCHANGED <<program, start_number, num_projects, BILLING_ACCOUNT_ID,
                   credentials, i, project_number, project_name, project_id,
                   created_projects_info, calls, reported, prefix, gen_result,
                   submits, polled, last_poll, sleeps, candidate, valid>>

\* project_body and the create request
Submit ==
    /\ pc = "submit"
    /\ LET body == Body(project_id, project_name, BILLING_ACCOUNT_ID) IN
       \E s \in SubmitOutcomes(body) :
          /\ submits' = Append(submits, [body |-> body, outcome |-> s])
          /\ IF s.kind = "raises"
                THEN Leave(s.exc, <<>>)
                ELSE /\ project_body' = body
                     /\ operation' = s.value
                     /\ log' = Append(log, Event("info", "started"))
                     /\ pc' = "poll"
                     /\ UNCHANGED <<raised, new_project, outcomes, service,
                                    operation_result>>
    /\ UNCHANGED <<program, start_number, num_projects, BILLING_ACCOUNT_ID,
                   credentials, i, project_number, project_name, project_id,
                   created_projects_info, calls, reported, prefix, gen_result,
                   polled, last_poll, sleeps, candidate, valid>>

\* One iteration of the polling loop up to its return or its sleep
Poll ==
    /\ pc = "poll"
    /\ Len(polled) < MaxPolls
    /\ IF "name" \notin DOMAIN operation
          THEN /\ Leave("KeyError", <<>>)
               /\ UNCHANGED <<polled, last_poll>>
          ELSE \E r \in PollOutcomes(project_body) :
                  /\ polled' = Append(polled, operation.name)
                  /\ last_poll' = r
                  /\ IF r.kind = "raises"
                        THEN Leave(r.exc, <<>>)
                        ELSE LET step == ProcessStatus(r.value) IN
                             CASE step.next = "raise" -> Leave(step.exc, step.events)
                               [] step.next = "return" -> Return(step.value, step.events)
                               [] OTHER ->
                                    /\ operation_result' = r.value
                                    /\ log' = log \o step.events
                                    /\ pc' = "sleep"
                                    /\ UNCHANGED <<raised, new_project, outcomes,
                                                   service, project_body,
                                                   operation>>
    /\ UNCHANGED <<program, start_number, num_projects, BILLING_ACCOUNT_ID,
                   credentials, i, project_number, project_name, project_id,
                   created_projects_info, calls, reported, prefix, gen_result,
                   submits, sleeps, candidate, valid>>

\* time.sleep(5), then the next iteration
Sleep ==
    /\ pc = "sleep"
    /\ sleeps' = Append(sleeps, PollInterval)
    /\ pc' = "poll"
    /\ UNCHANGED <<program, start_number, num_projects, BILLING_ACCOUNT_ID,
                   credentials, i, project_number, project_name, project_id,
                   new_project, created_projects_info, calls, outcomes, reported,
                   prefix, gen_result, service, project_body, operation,
                   operation_result, submits, polled, last_poll, log,
                   raised, candidate, valid>>

\* State of a create_google_project call at its entry
CallState ==
    /\ pc = "create"
    /\ new_project = None
    /\ service = "None"
    /\ project_body = EmptyDict
    /\ operation = None
    /\ operation_result = None
    /\ submits = <<>>
    /\ polled = <<>>
    /\ last_poll = NoPoll
    /\ sleeps = <<>>
    /\ log = <<>>
    /\ raised = "None"

\* Arguments of the calls SpecCreate follows
ArgIds == { <<"p","r","o","j","e","c","t","0","1","-">> \o Rep("a", SuffixLen) }
ArgNames == { NoneStr, <<>>, <<"p","r","o","j","e","c","t","0","1">> }
ArgBilling == { NoneStr, <<>>, <<"0","1","A","B">> }
ArgCredentials == { "None", "credentials" }

InitCreate ==
    /\ CallState
    /\ program \in {"main.py", "create_projects.py"}
    /\ start_number = 0
    /\ num_projects = 0
    /\ i = 0
    /\ project_number = 0
    /\ created_projects_info = <<>>
    /\ calls = <<>>
    /\ outcomes = <<>>
    /\ reported = <<>>
    /\ prefix = NoneStr
    /\ gen_result = NoneStr
    /\ candidate = NoneStr
    /\ valid = FALSE
    /\ project_id \in ArgIds
    /\ project_name \in ArgNames
    /\ BILLING_ACCOUNT_ID \in ArgBilling
    /\ credentials \in ArgCredentials

NextCreate == Enter \/ Submit \/ Poll \/ Sleep

SpecCreate == InitCreate /\ [][NextCreate]_vars

---------------------------------------------------------------------------
(* __main__: the batch driver *)

\* int(text): text is an optional sign followed by decimal digits (the model
\* enters no surrounding blanks or underscores); anything else is a ValueError
Unsigned(text) ==
    IF Len(text) >= 1 /\ text[1] \in {"+", "-"} THEN Tail(text) ELSE text
IsIntLiteral(text) ==
    /\ Len(Unsigned(text)) >= 1
    /\ \A k \in 1..Len(Unsigned(text)) : Unsigned(text)[k] \in Digits
DigitValue(c) == CHOOSE d \in 0..9 : DigitChar[d + 1] = c
RECURSIVE DigitsValue(_)
DigitsValue(ds) ==
    IF ds = <<>> THEN 0
    ELSE 10 * DigitsValue(SubSeq(ds, 1, Len(ds) - 1)) + DigitValue(ds[Len(ds)])
int(text) ==
    IF Len(text) >= 1 /\ text[1] = "-"
        THEN 0 - DigitsValue(Unsigned(text))
        ELSE DigitsValue(Unsigned(text))

\* the decimal digits of n >= 0
RECURSIVE DigitsOf(_)
DigitsOf(n) ==
    IF n < 10 THEN <<DigitChar[n + 1]>>
    ELSE DigitsOf(n \div 10) \o <<DigitChar[(n % 10) + 1]>>
\* zero-padding of the format spec 02d
PadWidth == 2
\* f"{n:02d}": sign, then the digits zero-padded so that the whole is at
\* least two characters wide
Format02d(n) ==
    LET sign == IF n < 0 THEN <<"-">> ELSE <<>>
        ds == DigitsOf(IF n < 0 THEN 0 - n ELSE n)
        pad == PadWidth - Len(sign) - Len(ds)
    IN  sign \o Rep("0", IF pad > 0 THEN pad ELSE 0) \o ds

\* lower and upper limit named by the range check
RangeLow == 1
RangeHigh == 12
\* a range check of main.py that joins its two comparisons with or
OutOfRangeOr(prog, n) ==
    IF prog = "main.py" THEN n < RangeLow \/ n > RangeHigh ELSE n < RangeLow
\* the condition under which an entered integer is refused and asked again
OutOfRange(prog, n) ==
    IF prog = "main.py" THEN n < RangeLow /\ n > RangeHigh ELSE n < RangeLow

\* What the user types at the three prompts
StartInputs == { <<"1">>, <<"-","1">>, <<"1","3">>,
                 <<"9","9","9","9","9","9","9">>, <<"x">> }
CountInputs == { DigitsOf(n) : n \in 0..MaxBatch }
                  \cup { <<"-","1">>, <<"1","3">>, <<>> }
BillingInputs == { <<>>, <<"0","1","A","B">> }

\* The first prompt loop: an input that is no integer or is refused by the
\* range check is asked again.
ReadStart ==
    /\ pc = "read_start"
    /\ \E text \in StartInputs :
          IF IsIntLiteral(text) /\ ~OutOfRange(program, int(text))
            THEN start_number' = int(text) /\ pc' = "read_count"
            ELSE UNCHANGED <<start_number, pc>>
    /\ UNCHANGED <<program, num_projects, BILLING_ACCOUNT_ID, credentials, i,
                   project_number, project_name, project_id, new_project,
                   created_projects_info, calls, outcomes, reported, prefix,
                   gen_result,
                   service, project_body, operation, operation_result,
                   submits, polled, last_poll, sleeps, log, raised, candidate,
                   valid>>

\* The second prompt loop
ReadCount ==
    /\ pc = "read_count"
    /\ \E text \in CountInputs :
          IF IsIntLiteral(text) /\ ~OutOfRange(program, int(text))
            THEN num_projects' = int(text) /\ pc' = "read_billing"
            ELSE UNCHANGED <<num_projects, pc>>
    /\ UNCHANGED <<program, start_number, BILLING_ACCOUNT_ID, credentials, i,
                   project_number, project_name, project_id, new_project,
                   created_projects_info, calls, outcomes, reported, prefix,
                   gen_result,
                   service, project_body, operation, operation_result,
                   submits, polled, last_poll, sleeps, log, raised, candidate,
                   valid>>

\* input(...) or None, the authorization flow and created_projects_info = []
Configure ==
    /\ pc = "read_billing"
    /\ \E text \in BillingInputs :
          BILLING_ACCOUNT_ID' = IF text = <<>> THEN NoneStr ELSE text
    /\ credentials' = "credentials"
    /\ created_projects_info' = <<>>
    /\ pc' = "loop"
    /\ UNCHANGED <<program, start_number, num_projects, i, project_number,
                   project_name, project_id, new_project, calls, outcomes,
                   reported,
                   prefix, gen_result, service, project_body, operation,
                   operation_result, submits, polled, last_poll, sleeps, log,
                   raised, candidate, valid>>

ProjectName(n) == <<"p","r","o","j","e","c","t">> \o Format02d(n)

\* for i in range(num_projects): the next iteration up to the call of
\* generate_random_project_id, or the end of the loop.  i is the index the
\* next iteration takes.
LoopStep ==
    /\ pc = "loop"
    /\ IF i < num_projects
          THEN /\ i < MaxBatch
               /\ project_number' = start_number + i
               /\ project_name' = ProjectName(start_number + i)
               /\ prefix' = ProjectName(start_number + i) \o <<"-">>
               /\ log' = <<>>
               /\ pc' = "gen"
          ELSE /\ pc' = "summary"
               /\ UNCHANGED <<project_number, project_name, prefix, log>>
    /\ UNCHANGED <<program, start_number, num_projects, BILLING_ACCOUNT_ID,
                   credentials, i, project_id, new_project,
                   created_projects_info, calls, outcomes, reported, gen_result,
                   service, project_body, operation, operation_result,
                   submits, polled, last_poll, sleeps, raised, candidate,
                   valid>>

\* project_id = generate_random_project_id(...) returns and
\* create_google_project is called; what is recorded of a call starts empty
CallCreate ==
    /\ pc = "gen_returned"
    /\ project_id' = gen_result
    /\ calls' = Append(calls, project_number)
    /\ pc' = "create"
    /\ new_project' = None
    /\ service' = "None"
    /\ project_body' = EmptyDict
    /\ operation' = None
    /\ operation_result' = None
    /\ submits' = <<>>
    /\ polled' = <<>>
    /\ last_poll' = NoPoll
    /\ sleeps' = <<>>
    /\ log' = <<>>
    /\ raised' = "None"
    /\ prefix' = NoneStr
    /\ gen_result' = NoneStr
    /\ candidate' = NoneStr
    /\ valid' = FALSE
    /\ UNCHANGED <<program, start_number, num_projects, BILLING_ACCOUNT_ID,
                   credentials, i, project_number, project_name,
                   created_projects_info, outcomes, reported>>

\* where the driver goes once it has handled the value create returned
AbortOnFailure(outcome) == IF Truthy(outcome) THEN "loop" ELSE "summary"
RetryOnFailure(outcome) == IF Truthy(outcome) THEN "loop" ELSE "create"
AfterOutcome(outcome) == "loop"

\* if new_project: of the loop body
RecordedUnlessNone(outcome) == outcome # None
Recorded(outcome) == Truthy(outcome)

\* The rest of the loop body: the returned value is appended to
\* created_projects_info or the failure is reported.  An exception that left
\* create_google_project ends the program.  What was recorded of the call
\* (submits, polled, last_poll, sleeps, log) is dropped.
Record ==
    /\ pc = "returned"
    /\ IF raised # "None"
          THEN /\ pc' = "crashed"
               /\ UNCHANGED <<created_projects_info, reported, i>>
          ELSE /\ IF Recorded(new_project)
                     THEN /\ created_projects_info' =
                                 Append(created_projects_info, new_project)
                          /\ UNCHANGED reported
                     ELSE /\ reported' = Append(reported, project_number)
                          /\ UNCHANGED created_projects_info
               /\ i' = i + 1
               /\ pc' = AfterOutcome(new_project)
    /\ submits' = <<>>
    /\ polled' = <<>>
    /\ last_poll' = NoPoll
    /\ sleeps' = <<>>
    /\ log' = <<>>
    /\ UNCHANGED <<program, start_number, num_projects, BILLING_ACCOUNT_ID,
                   credentials, project_number, project_name, project_id,
                   new_project, calls, outcomes, prefix, gen_result, service,
                   project_body, operation, operation_result, raised,
                   candidate, valid>>

\* The final summary reads name, projectId and projectNumber of every entry.
Summary ==
    /\ pc = "summary"
    /\ pc' = IF \A k \in 1..Len(created_projects_info) :
                   {"name", "projectId", "projectNumber"}
                       \subseteq DOMAIN created_projects_info[k]
                THEN "done" ELSE "crashed"
    /\ UNCHANGED <<program, start_number, num_projects, BILLING_ACCOUNT_ID,
                   credentials, i, project_number, project_name, project_id,
                   new_project, created_projects_info, calls, outcomes, reported,
                   prefix, gen_result, service, project_body, operation,
                   operation_result, submits, polled, last_poll, sleeps, log,
                   raised, candidate, valid>>

Init ==
    /\ Idle
    /\ program \in {"main.py", "create_projects.py"}
    /\ pc = "read_start"
    /\ prefix = NoneStr
    /\ gen_result = NoneStr
    /\ candidate = NoneStr
    /\ valid = FALSE

Next ==
    \/ ReadStart
    \/ ReadCount
    \/ Configure
    \/ LoopStep
    \/ GenTry
    \/ CallCreate
    \/ Enter
    \/ Submit
    \/ Poll
    \/ Sleep
    \/ Record
    \/ Summary

Spec == Init /\ [][Next]_vars

---------------------------------------------------------------------------
(* Properties *)

\* The outcome of a create_google_project call that has ended, read off what
\* the caller sees: the exception or the value it got and the diagnostic the
\* call ended with.
Outcome ==
    IF raised # "None" THEN "Raised"
    ELSE IF new_project # None THEN "Success"
    ELSE CASE log[Len(log)].event = "http_error" -> "TransportError"
           [] log[Len(log)].event = "unexpected_error" -> "UnexpectedError"
           [] log[Len(log)].event = "no_credentials" -> "NoCredentials"
           [] OTHER -> "ApiError"

FailureEvents == {"http_error", "unexpected_error", "create_error", "no_credentials"}
Emitted(event) == \E k \in 1..Len(log) : log[k].event = event

\* the latest poll returned a status dict
PollReturnedDict == last_poll.kind = "returns" /\ last_poll.value # None

\* C1: create_google_project never raises to its caller: whatever the client
\* does (build, the submission or a poll raising an HTTP error or another
\* exception, or a poll returning a malformed status), no exception leaves the
\* call, and a call that has ended has returned None or a resource record.
C1_NeverRaises ==
    /\ raised = "None"
    /\ pc = "returned" =>
          /\ Len(outcomes) = 1
          /\ outcomes[1] = new_project
          /\ Outcome \in {"Success", "TransportError", "UnexpectedError",
                          "ApiError", "NoCredentials"}

\* C1 witness: a call whose poll raised an exception that is no HTTP error
\* has ended by returning None.
C1_Witness ==
    /\ pc = "returned"
    /\ last_poll = Raises("TimeoutError")
    /\ Outcome = "UnexpectedError"
    /\ new_project = None

\* C2: a poll whose status carries done=false is treated as not complete and is
\* followed by another poll (the call has not ended on it), and a poll whose
\* status carries done=true with a response payload and no error ends the call
\* with that payload as its result.
C2_DoneFalsePollsAgain ==
    /\ (PollReturnedDict /\ "done" \in DOMAIN last_poll.value
            /\ last_poll.value.done = FALSE)
          => pc \in {"sleep", "poll"}
    /\ (PollReturnedDict /\ "done" \in DOMAIN last_poll.value
            /\ last_poll.value.done = TRUE
            /\ "error" \notin DOMAIN last_poll.value
            /\ "response" \in DOMAIN last_poll.value)
          => (pc = "returned" /\ new_project = last_poll.value.response)

\* a status that reports done=true with an error payload carrying code and message
DoneWithError(st) ==
    /\ "done" \in DOMAIN st
    /\ st.done = TRUE
    /\ "error" \in DOMAIN st
    /\ {"code", "message"} \subseteq DOMAIN st.error

\* C3: when the first poll returns done=true with an error payload carrying a
\* code and a message, the call has ended after that one poll, without sleeping,
\* with a Failure of kind ApiError (None returned) that reports the code and
\* the message.
C3_ApiErrorAfterOnePoll ==
    (Len(polled) = 1 /\ PollReturnedDict /\ DoneWithError(last_poll.value)) =>
        /\ pc = "returned"
        /\ new_project = None
        /\ raised = "None"
        /\ Outcome = "ApiError"
        /\ sleeps = <<>>
        /\ \E k \in 1..Len(log) :
              /\ log[k].event = "code"
              /\ log[k].code = last_poll.value.error.code
        /\ \E k \in 1..Len(log) :
              /\ log[k].event = "message"
              /\ log[k].message = last_poll.value.error.message

\* C3 witness: the first poll returned done=true with the error 409 and the call ended.
C3_Witness ==
    /\ pc = "returned"
    /\ Len(polled) = 1
    /\ PollReturnedDict
    /\ DoneWithError(last_poll.value)
    /\ last_poll.value.error.code = 409
    /\ Outcome = "ApiError"

\* C4: when the submission raises an HTTP error, the call has ended with a
\* Failure of kind TransportError (None returned, nothing raised) and no
\* operation was polled.
C4_SubmitHttpError ==
    (Len(submits) >= 1 /\ submits[1].outcome = Raises("HttpError")) =>
        /\ pc = "returned"
        /\ new_project = None
        /\ raised = "None"
        /\ Outcome = "TransportError"
        /\ polled = <<>>
        /\ last_poll = NoPoll
        /\ sleeps = <<>>
        /\ Len(submits) = 1

\* C4 witness: a call whose submission raised an HTTP error has ended.
C4_Witness ==
    /\ pc = "returned"
    /\ Len(submits) = 1
    /\ submits[1].outcome = Raises("HttpError")
    /\ Outcome = "TransportError"

\* the numbers of the calls whose returned value the driver did not record
RECURSIVE FailedNumbers(_, _)
FailedNumbers(nums, vals) ==
    IF vals = <<>> \/ nums = <<>> THEN <<>>
    ELSE IF Truthy(Head(vals))
        THEN FailedNumbers(Tail(nums), Tail(vals))
        ELSE <<Head(nums)>> \o FailedNumbers(Tail(nums), Tail(vals))

BatchOver == pc \in {"summary", "done", "crashed"}

\* C5 as stated: after a batch of N resources the aggregated result is a
\* sequence of N outcomes, entry k being the outcome of the k-th resource.
C5_ResultHasEveryOutcome ==
    (BatchOver /\ num_projects >= 1) =>
        /\ Len(created_projects_info) = num_projects
        /\ created_projects_info = outcomes

\* C5 amended: between iterations and after the batch, created_projects_info
\* holds, in the original order, exactly the non-empty records the create calls
\* returned, every other outcome is reported as failed, in order, under its
\* sequence number, and after a batch of N >= 0 resources the two together
\* account for exactly N outcomes.
C5_SuccessesInOrder ==
    pc \in {"loop", "summary", "done", "crashed"} =>
        /\ created_projects_info = SelectSeq(outcomes, Truthy)
        /\ reported = FailedNumbers(calls, outcomes)
        /\ Len(created_projects_info) + Len(reported) = Len(outcomes)
        /\ (BatchOver /\ num_projects >= 0) => Len(outcomes) = num_projects

\* C5 witness: a batch of 3 has ended where #2 failed and #1, #3 succeeded.
C5_Witness ==
    /\ pc = "done"
    /\ num_projects = 3
    /\ Len(outcomes) = 3
    /\ Truthy(outcomes[1])
    /\ outcomes[2] = None
    /\ Truthy(outcomes[3])
    /\ created_projects_info = <<outcomes[1], outcomes[3]>>
    /\ reported = <<start_number + 1>>

\* C6: the k-th invocation of create is for sequence number start + k - 1,
\* there are never more than N of them, and once the loop of a batch of
\* N >= 1 resources is over there were exactly N, whatever was returned.
C6_EveryResourceAttempted ==
    /\ \A k \in 1..Len(calls) : calls[k] = start_number + k - 1
    /\ Len(calls) >= 1 => Len(calls) <= num_projects
    /\ (BatchOver /\ num_projects >= 1) => Len(calls) = num_projects

\* C6 witness: a batch of 3 has ended whose first two creations failed.
C6_Witness ==
    /\ pc = "done"
    /\ num_projects = 3
    /\ Len(calls) = 3
    /\ outcomes[1] = None
    /\ outcomes[2] = None

\* C7: a string shorter than 6 or longer than 30 is not valid.
C7_LengthRejected ==
    (pc = "validated" /\ (Len(candidate) < MinLen \/ Len(candidate) > MaxLen))
        => valid = FALSE

\* C8: a string whose first character is no lowercase letter, whose last
\* character is no lowercase letter or digit, or that holds a character outside
\* [a-z0-9-] is not valid.
C8_CharactersRejected ==
    (/\ pc = "validated"
     /\ Len(candidate) >= 1
     /\ \/ candidate[1] \notin Lower
        \/ candidate[Len(candidate)] \notin Lower \cup Digits
        \/ \E k \in 1..Len(candidate) :
              candidate[k] \notin Lower \cup Digits \cup {"-"})
        => valid = FALSE

\* C9: what generate_random_project_id returns is the prefix followed by
\* exactly 15 lowercase letters and digits and is valid; every candidate before
\* it was not valid, and the rejected candidates left nothing but their
\* warnings; until a candidate is valid nothing is returned.
C9_GeneratedIdValid ==
    /\ pc = "gen" => gen_result = NoneStr
    /\ pc = "gen_returned" =>
          /\ Len(gen_result) = Len(prefix) + SuffixLen
          /\ SubSeq(gen_result, 1, Len(prefix)) = prefix
          /\ \A k \in (Len(prefix) + 1)..Len(gen_result) :
                gen_result[k] \in Lower \cup Digits
          /\ is_valid_project_id(gen_result)
          /\ Grammar(gen_result)
          /\ \A k \in 1..Len(log) :
                /\ log[k].event = "invalid_id"
                /\ ~is_valid_project_id(log[k].id)
                /\ log[k].id # gen_result

\* C9 witness: an identifier was returned after a candidate had been rejected.
C9_Witness ==
    /\ pc = "gen_returned"
    /\ Len(log) >= 1
    /\ is_valid_project_id(gen_result)

\* a status dict without the 'done' key
NoDoneKey(st) == "done" \notin DOMAIN st

\* C10: after a poll that returned a status without the 'done' key, whatever
\* else the status carries, the call has not ended and reported no failure: it
\* is about to sleep, or has slept 5 once per poll so far and is about to poll
\* again.
C10_MissingDoneKeepsPolling ==
    (PollReturnedDict /\ NoDoneKey(last_poll.value)) =>
        /\ pc \in {"sleep", "poll"}
        /\ new_project = None
        /\ raised = "None"
        /\ outcomes = <<>>
        /\ \A k \in 1..Len(log) : log[k].event \notin FailureEvents
        /\ Len(sleeps) = (IF pc = "sleep" THEN Len(polled) - 1 ELSE Len(polled))
        /\ \A k \in 1..Len(sleeps) : sleeps[k] = PollInterval

\* C10 witness: a second poll returned a status with an 'error' entry and no
\* 'done' key, and the call slept again and is about to poll a third time.
C10_Witness ==
    /\ pc = "poll"
    /\ Len(polled) = 2
    /\ Len(sleeps) = 2
    /\ PollReturnedDict
    /\ NoDoneKey(last_poll.value)
    /\ "error" \in DOMAIN last_poll.value


\* C11: when a poll returns a completed operation with an error payload
\* (code and message), the remediation hint is among the diagnostics of the
\* failure exactly when the message contains "Terms of Service", and the
\* outcome is a Failure of kind ApiError either way.
C11_HintIffTermsOfService ==
    (PollReturnedDict /\ "done" \in DOMAIN last_poll.value
        /\ "error" \in DOMAIN last_poll.value
        /\ {"code", "message"} \subseteq DOMAIN last_poll.value.error) =>
        /\ pc = "returned"
        /\ Outcome = "ApiError"
        /\ new_project = None
        /\ Emitted("solution") <=>
              Contains(last_poll.value.error.message, TermsOfService)
        /\ Emitted("solution") => log[Len(log)].event = "solution"

\* C11 witness: a failure whose message contains "Terms of Service" ended
\* with the hint.
C11_Witness ==
    /\ pc = "returned"
    /\ PollReturnedDict
    /\ DoneWithError(last_poll.value)
    /\ last_poll.value.error.message = MsgTerms
    /\ Emitted("solution")
    /\ Outcome = "ApiError"


\* a status that does not indicate completion: no 'done' entry, or done=false
Pending(st) == "done" \notin DOMAIN st \/ st.done = FALSE

\* C12: polling has no deadline: after any number of polls, a poll that
\* returned a status not indicating completion is followed by a sleep and
\* another poll (the call has not given up), and a poll that raised or
\* returned a completed status has made the call return.
C12_NoDeadline ==
    /\ (PollReturnedDict /\ Pending(last_poll.value)) =>
            /\ pc \in {"sleep", "poll"}
            /\ outcomes = <<>>
    /\ (last_poll.kind = "raises"
          \/ (PollReturnedDict /\ ~Pending(last_poll.value))) =>
            /\ pc = "returned"
            /\ raised = "None"
            /\ Len(outcomes) = 1


\* C13: within one create call the create request is executed at most once;
\* polls happen only after it returned an operation, and each of them asks for
\* that operation's name; and once the call has reached its outcome no
\* submission, poll or sleep can happen any more (no internal retry).
C13_SubmitOncePollSameHandle ==
    /\ Len(submits) <= 1
    /\ polled # <<>> =>
          /\ Len(submits) = 1
          /\ submits[1].outcome.kind = "returns"
          /\ \A k \in 1..Len(polled) : polled[k] = submits[1].outcome.value.name
    /\ sleeps # <<>> => polled # <<>>
    /\ (pc = "returned" \/ outcomes # <<>>) => ~ENABLED (Submit \/ Poll \/ Sleep)

\* C13 witness: a call that failed on its second poll has returned with one
\* submission on record and both polls made for the submitted operation.
C13_Witness ==
    /\ pc = "returned"
    /\ new_project = None
    /\ Len(submits) = 1
    /\ Len(polled) = 2
    /\ polled[1] = submits[1].outcome.value.name
    /\ polled[2] = submits[1].outcome.value.name
    /\ ~ENABLED NextCreate


\* C14: the body of the create request carries the identifier in its
\* project_id field; its name field is the display name when that is
\* non-empty and the identifier when the display name is empty or None; and
\* the parent field is present exactly when a non-empty billing account id
\* was supplied, and then names that account.
C14_PayloadFields ==
    \A k \in 1..Len(submits) :
        LET body == submits[k].body IN
        /\ body.project_id = project_id
        /\ body.name = (IF project_name \in {NoneStr, <<>>}
                           THEN project_id ELSE project_name)
        /\ "parent" \in DOMAIN body <=> BILLING_ACCOUNT_ID \notin {NoneStr, <<>>}
        /\ "parent" \in DOMAIN body =>
              body.parent = [type |-> "billingAccounts", id |-> BILLING_ACCOUNT_ID]
        /\ DOMAIN body \subseteq {"project_id", "name", "parent"}

\* C14 witness: a request was submitted for an empty display name and a
\* non-empty billing account id: named after the identifier, with a parent.
C14_Witness ==
    /\ Len(submits) = 1
    /\ project_name = <<>>
    /\ BILLING_ACCOUNT_ID = <<"0","1","A","B">>
    /\ submits[1].body.name = project_id
    /\ submits[1].body.parent.id = BILLING_ACCOUNT_ID


\* a completed status with neither payload, or whose error payload lacks its
\* code or its message
Malformed(st) ==
    /\ "done" \in DOMAIN st
    /\ IF "error" \in DOMAIN st
          THEN ~({"code", "message"} \subseteq DOMAIN st.error)
          ELSE "response" \notin DOMAIN st

C16_OneSleepPerPendingPoll ==
    /\ \A k \in 1..Len(sleeps) : sleeps[k] = PollInterval
    /\ polled = <<>> => sleeps = <<>>
    /\ (PollReturnedDict /\ Pending(last_poll.value)) =>
          \/ pc = "sleep" /\ Len(sleeps) = Len(polled) - 1
          \/ pc = "poll" /\ Len(sleeps) = Len(polled)
    /\ (pc = "returned" /\ polled # <<>>) => Len(sleeps) = Len(polled) - 1


\* a call of create_google_project has been made and has not returned
InFlight == pc \in {"create", "submit", "poll", "sleep"}

\* C17: the batch loop is strictly sequential: while a create call is in
\* flight it is the only one (every earlier call has returned its outcome),
\* outside a call every call made has returned; the calls are made in the
\* order of the project numbers; a create request is submitted only inside
\* the call of the current resource, for its identifier, and every poll asks
\* for the operation that this request returned.
C17_OneAttemptInFlight ==
    /\ raised = "None"
    /\ IF InFlight THEN Len(calls) = Len(outcomes) + 1
                   ELSE Len(calls) = Len(outcomes)
    /\ \A k \in 1..Len(calls) : calls[k] = start_number + k - 1
    /\ Len(submits) <= 1
    /\ submits # <<>> =>
          /\ InFlight \/ pc = "returned"
          /\ submits[1].body.project_id = project_id
          /\ project_number = calls[Len(calls)]
    /\ polled # <<>> =>
          /\ InFlight \/ pc = "returned"
          /\ \A k \in 1..Len(polled) : polled[k] = Handle(submits[1].body)

\* C17 witness: the second resource's call is polling after the first
\* resource's call has returned.
C17_Witness ==
    /\ pc = "sleep"
    /\ Len(calls) = 2
    /\ Len(outcomes) = 1
    /\ Len(submits) = 1
    /\ Len(polled) = 1
    /\ project_number = start_number + 1


\* the integers among the texts typed at a prompt
IntegersAmong(texts) == { int(text) : text \in { t \in texts : IsIntLiteral(t) } }

\* C18: in main.py the range check on the start number and on the count never
\* triggers: at either prompt every integer typed (zero, negative or above 12)
\* can be accepted on the spot with its value, an answer leaves the prompt
\* only with such an integer (anything else is asked again), and the accepted
\* values are the ones the batch runs with.
C18_RangeCheckNeverTriggers ==
    program = "main.py" =>
        /\ \A n \in IntegersAmong(StartInputs \cup CountInputs) : ~OutOfRange(program, n)
        /\ pc = "read_start" =>
              /\ \A n \in IntegersAmong(StartInputs) :
                    ENABLED (ReadStart /\ pc' = "read_count" /\ start_number' = n)
              /\ ~ENABLED (ReadStart /\ pc' # "read_start"
                              /\ start_number' \notin IntegersAmong(StartInputs))
              /\ ENABLED (ReadStart /\ pc' = "read_start")
        /\ pc = "read_count" =>
              /\ \A n \in IntegersAmong(CountInputs) :
                    ENABLED (ReadCount /\ pc' = "read_billing" /\ num_projects' = n)
              /\ ~ENABLED (ReadCount /\ pc' # "read_count"
                              /\ num_projects' \notin IntegersAmong(CountInputs))
              /\ ENABLED (ReadCount /\ pc' = "read_count")
        /\ \A k \in 1..Len(calls) :
              /\ calls[k] = start_number + k - 1
              /\ k <= num_projects
        /\ pc \in {"summary", "done"} =>
              Len(calls) = (IF num_projects > 0 THEN num_projects ELSE 0)

\* C18 witness: main.py took -1 as the start number and 13 as the count and
\* is creating project-1.
C18_Witness ==
    /\ program = "main.py"
    /\ start_number = -1
    /\ num_projects = 13
    /\ pc = "create"
    /\ calls = <<-1>>
    /\ project_name = <<"p","r","o","j","e","c","t","-","1">>


\* C19: every string that satisfies the naming grammar (6 to 30 characters,
\* first a lowercase letter, last a lowercase letter or digit, the others
\* lowercase letters, digits or hyphens) is accepted by is_valid_project_id.
C19_GrammarAccepted ==
    (pc = "validated" /\ Grammar(candidate)) => valid = TRUE

\* C19 witness: a 30-character string of the grammar with hyphens in its
\* interior has been validated and accepted.
C19_Witness ==
    /\ pc = "validated"
    /\ candidate = <<"a">> \o Rep("-", MaxInterior) \o <<"0">>
    /\ Grammar(candidate)
    /\ valid = TRUE


\* C20: for every start number and count the batch loop runs with, the prefix
\* built for each resource ("project", the number in at least two digits, "-")
\* gives a valid identifier with every suffix, so generate_random_project_id
\* has rejected no candidate while it runs or when it returns.
C20_EveryPrefixYieldsValidId ==
    pc \in {"gen", "gen_returned"} =>
        /\ Rejected = <<>>
        /\ pc = "gen" =>
              \A suffix \in RandomSuffixes :
                  is_valid_project_id(Concat(prefix, suffix))
        /\ pc = "gen_returned" => is_valid_project_id(gen_result)


\* create_google_project reached Success: it returned the resource payload of
\* a completed operation (any dict), not None
IsSuccess(v) == v # None

\* C21: between iterations and after the batch, the driver has recorded a
\* resource exactly when its create call reached Success: the created list
\* holds, in order, the payload of every Success, the empty payload included,
\* and exactly the calls that returned None were reported as failed.
C21_RecordedIffSuccess ==
    pc \in {"loop", "summary", "done", "crashed"} =>
        /\ created_projects_info = SelectSeq(outcomes, IsSuccess)
        /\ Len(reported) = Len(outcomes) - Len(SelectSeq(outcomes, IsSuccess))
        /\ \A k \in 1..Len(outcomes) :
              IsSuccess(outcomes[k]) =>
                  \A j \in 1..Len(reported) : reported[j] # calls[k]


\* C22: a call made with credentials None returns the failure value at once
\* and interacts with nothing remote: from its entry it can only return, with
\* no client built; it is never at the create request, a poll or a sleep; and
\* when it has returned, it returned None without raising, logged only the
\* missing-credentials error, and submitted, polled and slept zero times.
C22_NoCredentialsNoRemoteCall ==
    credentials = "None" =>
        /\ pc \in {"create", "returned"}
        /\ service = "None"
        /\ submits = <<>>
        /\ polled = <<>>
        /\ last_poll = NoPoll
        /\ sleeps = <<>>
        /\ pc = "create" =>
              /\ ENABLED (Enter /\ pc' = "returned")
              /\ ~ENABLED (Enter /\ (pc' # "returned" \/ service' # "None"))
        /\ pc = "returned" =>
              /\ new_project = None
              /\ raised = "None"
              /\ outcomes = <<None>>
              /\ log = <<Event("error", "no_credentials")>>
              /\ Outcome = "NoCredentials"

\* C22 witness: a call without credentials has returned None after logging
\* the missing-credentials error, with nothing submitted or polled.
C22_Witness ==
    /\ credentials = "None"
    /\ pc = "returned"
    /\ new_project = None
    /\ log = <<Event("error", "no_credentials")>>
    /\ submits = <<>>
    /\ polled = <<>>
    /\ sleeps = <<>>

====
